---- MODULE Spec2Model ----
(***************************************************************************)
(* A model of package i2c (src/i2c.go, src/cgo.go): the handle Options     *)
(* with its os.File, the operating system's descriptor table, the device   *)
(* on the bus, and every exported operation of the package.                *)
(*                                                                         *)
(* Every operation is an operator that computes what the Go function       *)
(* returns together with the trace of the calls it makes on the os.File    *)
(* and on the kernel; the outcome of each system call is an input drawn    *)
(* by the action that applies the operator.                                *)
(***************************************************************************)
EXTENDS Integers, Sequences, FiniteSets, TLC

\* ------------------------------------------------------------ bounds
MaxReg == 1
MaxLen == 2
MaxFds == 2
NumCtx == 2

\* register addresses, device addresses and execution contexts of the model
Regs == 0..MaxReg
Addrs == {39, 118}
Ctx == 1..NumCtx
Devs == {"/dev/i2c-0"}

\* data bytes on the wire: both ends of the range, both sides of the sign
\* bit, and the bytes of the spec's examples
ByteSamples == {0, 18, 52, 127, 128, 255}

\* every byte
Byte == 0..255

\* ------------------------------------------------------------ constants
\* linux/i2c-dev.h and linux/i2c.h, imported by src/cgo.go
I2C_SLAVE == 1795
I2C_RDWR == 1799
I2C_M_RD == 1

\* ------------------------------------------------------------ integers
\* Go's fixed-width integer arithmetic.  TLC's integers are 32 bits wide, so
\* a uint32 is kept as two 16-bit halves.
Pow16 == 256 * 256

\* uint16(x): the low 16 bits of x
U16(x) == x % Pow16

\* int16(x): the low 16 bits of x read as two's complement
S16(x) == IF (x % Pow16) >= 32768 THEN (x % Pow16) - Pow16 ELSE (x % Pow16)

\* byte(x): the low 8 bits of x
U8(x) == x % 256

\* uint16 multiplication a * b, wrapping modulo 2^16
Mul16(a, b) ==
    (((U8(a) * b) % Pow16) + ((((U16(a) \div 256) * b) % 256) * 256)) % Pow16

\* a uint32 as its two 16-bit halves
U32(h, l) == [hi |-> h, lo |-> l]

\* byte(v >> k & 0xFF) for a uint32 v and k in {0, 8, 16, 24}
Shr32Byte(v, k) ==
    CASE k = 24 -> (v.hi \div 256) % 256
      [] k = 16 -> v.hi % 256
      [] k = 8  -> (v.lo \div 256) % 256
      [] OTHER  -> v.lo % 256

\* ------------------------------------------------------------ sequences
\* the sequences of length n over S
SeqsOfLen(S, n) == [1..n -> S]

SeqsUpTo(S, n) == UNION {SeqsOfLen(S, k) : k \in 0..n}

\* make([]byte, n) after a read delivered data into its front
Fill(n, data) == [i \in 1..n |-> IF i <= Len(data) THEN data[i] ELSE 0]

\* ------------------------------------------------------------ primitive calls
\* One call on the os.File or on the kernel, as the Go code makes it.
\*   kind  "open", "write", "read", "ioctl" or "close"
\*   sys   whether a system call reached the operating system
\*   fd    the descriptor it was made on (-1: none or invalid)
\*   cmd   the ioctl request, arg its scalar argument
\*   buf   the outbound bytes, len the requested read length
\*   msgs  the message descriptors of I2C_RDWR
\*   err   the error returned, n the count returned, data the bytes delivered
PCall(kind, sys, fd, cmd, arg, buf, len, msgs, err, n, data) ==
    [kind |-> kind, sys |-> sys, fd |-> fd, cmd |-> cmd, arg |-> arg,
     buf |-> buf, len |-> len, msgs |-> msgs, err |-> err, n |-> n,
     data |-> data]

\* what a Go function hands back: its value, its counts, its error ("nil",
\* an error, or "panic" when it does not return), and the calls it made
Ret(ret, n, m, err, trace) ==
    [ret |-> ret, n |-> n, m |-> m, err |-> err, trace |-> trace]

\* ------------------------------------------------------------ the handle
NilFile == [st |-> "nil", fd |-> -1]
OpenFile(fd) == [st |-> "open", fd |-> fd]
ClosedFile == [st |-> "closed", fd |-> -1]

NoHandle == [live |-> FALSE, addr |-> 0, dev |-> "", rc |-> NilFile]
Options(addr, dev, rc) == [live |-> TRUE, addr |-> addr, dev |-> dev, rc |-> rc]

\* the lowest descriptor the kernel has free
NextFd(fds) == CHOOSE f \in 3..(3 + Cardinality(fds)) :
                   /\ f \notin fds
                   /\ \A g \in 3..(3 + Cardinality(fds)) : g \notin fds => f <= g

\* (*os.File).Fd(): the descriptor, invalid once the file is nil or closed
Fd(rc) == IF rc.st = "open" THEN rc.fd ELSE -1

\* ioctl: the system call is made whatever the descriptor is
ioctl(fd, cmd, arg, buf, msgs, out) ==
    PCall("ioctl", TRUE, fd, cmd, arg, buf, 0, msgs,
          IF fd < 0 THEN "EBADF" ELSE out, 0, <<>>)

\* New: open the device, bind the address, keep the file in the handle
New(addr, dev, fds, oout, iout) ==
    LET fd == NextFd(fds)
        op == PCall("open", TRUE, IF oout = "nil" THEN fd ELSE -1, 0, 0,
                    <<>>, 0, <<>>, oout, 0, <<>>)
        io == ioctl(fd, I2C_SLAVE, addr, <<>>, <<>>, iout)
    IN  IF op.err # "nil"
        THEN Ret(Options(addr, dev, NilFile), 0, 0, op.err, <<op>>)
        ELSE IF io.err # "nil"
        THEN Ret(Options(addr, dev, NilFile), 0, 0, io.err, <<op, io>>)
        ELSE Ret(Options(addr, dev, OpenFile(fd)), 0, 0, "nil", <<op, io>>)

\* ReadBytes: o.rc.Read(buf) for a buffer of len bytes.  A nil or closed
\* file fails before any system call; a read of no bytes returns at once;
\* a read that delivers nothing reports EOF.
ReadBytes(o, len, out) ==
    CASE o.rc.st = "nil" ->
           PCall("read", FALSE, -1, 0, 0, <<>>, len, <<>>, "ErrInvalid", 0, <<>>)
      [] o.rc.st = "closed" ->
           PCall("read", FALSE, -1, 0, 0, <<>>, len, <<>>, "ErrClosed", 0, <<>>)
      [] o.rc.st = "open" /\ len = 0 ->
           PCall("read", FALSE, o.rc.fd, 0, 0, <<>>, len, <<>>, "nil", 0, <<>>)
      [] OTHER ->
           PCall("read", TRUE, o.rc.fd, 0, 0, <<>>, len, <<>>, out.err,
                 Len(out.data), out.data)

\* WriteBytes: o.rc.Write(buf)
WriteBytes(o, buf, out) ==
    CASE o.rc.st = "nil" ->
           PCall("write", FALSE, -1, 0, 0, buf, 0, <<>>, "ErrInvalid", 0, <<>>)
      [] o.rc.st = "closed" ->
           PCall("write", FALSE, -1, 0, 0, buf, 0, <<>>, "ErrClosed", 0, <<>>)
      [] OTHER ->
           PCall("write", TRUE, o.rc.fd, 0, 0, buf, 0, <<>>, out,
                 IF out = "nil" THEN Len(buf) ELSE 0, <<>>)

\* Close: o.rc.Close(); the descriptor is released once, by the first call
\* on an open file, whatever close(2) reports
Close(o, out) ==
    CASE o.rc.st = "nil" ->
           Ret(0, 0, 0, "ErrInvalid",
               <<PCall("close", FALSE, -1, 0, 0, <<>>, 0, <<>>, "ErrInvalid", 0, <<>>)>>)
      [] o.rc.st = "closed" ->
           Ret(0, 0, 0, "ErrClosed",
               <<PCall("close", FALSE, -1, 0, 0, <<>>, 0, <<>>, "ErrClosed", 0, <<>>)>>)
      [] OTHER ->
           Ret(0, 0, 0, out,
               <<PCall("close", TRUE, o.rc.fd, 0, 0, <<>>, 0, <<>>, out, 0, <<>>)>>)

\* ------------------------------------------------------------ bit operations
\* w & 0xFF on a 16-bit pattern, signed or unsigned
And00FF(w) == w % 256

\* w & 0xFF00 on an unsigned 16-bit value
AndFF00(w) == U16(w) - (U16(w) % 256)

\* w >> 8: logical on an unsigned value, arithmetic (sign-extending) on a
\* signed one; both are the floor of w / 256
Shr8(w) == w \div 256

\* uint32(b) << k for a byte b and k in {0, 8, 16, 24}
Shl32(b, k) ==
    CASE k = 24 -> U32(b * 256, 0)
      [] k = 16 -> U32(b, 0)
      [] k = 8  -> U32(0, b * 256)
      [] OTHER  -> U32(0, b)

\* a | b for two uint32 with no bit in common
Or32(a, b) == U32(a.hi + b.hi, a.lo + b.lo)

\* ------------------------------------------------------------ register reads
\* RegSelect with the register byte dropped: every read selects register 0
RegSelectZero(reg) == <<0>>

\* []byte{reg}: the one-byte buffer that selects the register to read
RegSelect(reg) == <<reg>>

\* ReadRegBytes without the early return: the read is made although the
\* register write failed
ReadRegBytesNoAbort(o, reg, n, wout, rout) ==
    LET w == WriteBytes(o, RegSelect(reg), wout)
        r == ReadBytes(o, n, rout)
    IN  IF n < 0 THEN Ret(<<>>, 0, 0, "panic", <<w>>)
        ELSE IF r.err # "nil" THEN Ret(<<>>, 0, 0, r.err, <<w, r>>)
        ELSE Ret(Fill(n, r.data), r.n, 0, "nil", <<w, r>>)

ReadRegBytes(o, reg, n, wout, rout) ==
    LET w == WriteBytes(o, RegSelect(reg), wout)
        r == ReadBytes(o, n, rout)
    IN  IF w.err # "nil" THEN Ret(<<>>, 0, 0, w.err, <<w>>)
        ELSE IF n < 0 THEN Ret(<<>>, 0, 0, "panic", <<w>>)
        ELSE IF r.err # "nil" THEN Ret(<<>>, 0, 0, r.err, <<w, r>>)
        ELSE Ret(Fill(n, r.data), r.n, 0, "nil", <<w, r>>)

ReadRegU8(o, reg, wout, rout) ==
    LET w == WriteBytes(o, RegSelect(reg), wout)
        r == ReadBytes(o, 1, rout)
        buf == Fill(1, r.data)
    IN  IF w.err # "nil" THEN Ret(0, 0, 0, w.err, <<w>>)
        ELSE IF r.err # "nil" THEN Ret(0, 0, 0, r.err, <<w, r>>)
        ELSE Ret(buf[1], 0, 0, "nil", <<w, r>>)

ReadRegU16BE(o, reg, wout, rout) ==
    LET w == WriteBytes(o, RegSelect(reg), wout)
        r == ReadBytes(o, 2, rout)
        buf == Fill(2, r.data)
    IN  IF w.err # "nil" THEN Ret(0, 0, 0, w.err, <<w>>)
        ELSE IF r.err # "nil" THEN Ret(0, 0, 0, r.err, <<w, r>>)
        ELSE Ret(U16(U16(buf[1] * 256) + buf[2]), 0, 0, "nil", <<w, r>>)

ReadRegU16LE(o, reg, wout, rout) ==
    LET be == ReadRegU16BE(o, reg, wout, rout)
        w == be.ret
    IN  IF be.err # "nil" THEN Ret(0, 0, 0, be.err, be.trace)
        ELSE Ret(U16(U16(And00FF(w) * 256) + Shr8(w)), 0, 0, "nil", be.trace)

\* ReadRegS16BE decoding in a wider integer: the sign bit is never read
ReadRegS16BEWide(o, reg, wout, rout) ==
    LET w == WriteBytes(o, RegSelect(reg), wout)
        r == ReadBytes(o, 2, rout)
        buf == Fill(2, r.data)
    IN  IF w.err # "nil" THEN Ret(0, 0, 0, w.err, <<w>>)
        ELSE IF r.err # "nil" THEN Ret(0, 0, 0, r.err, <<w, r>>)
        ELSE Ret(buf[1] * 256 + buf[2], 0, 0, "nil", <<w, r>>)

ReadRegS16BE(o, reg, wout, rout) ==
    LET w == WriteBytes(o, RegSelect(reg), wout)
        r == ReadBytes(o, 2, rout)
        buf == Fill(2, r.data)
    IN  IF w.err # "nil" THEN Ret(0, 0, 0, w.err, <<w>>)
        ELSE IF r.err # "nil" THEN Ret(0, 0, 0, r.err, <<w, r>>)
        ELSE Ret(S16(S16(buf[1] * 256) + buf[2]), 0, 0, "nil", <<w, r>>)

ReadRegS16LE(o, reg, wout, rout) ==
    LET be == ReadRegS16BE(o, reg, wout, rout)
        w == be.ret
    IN  IF be.err # "nil" THEN Ret(0, 0, 0, be.err, be.trace)
        ELSE Ret(S16(S16(And00FF(w) * 256) + Shr8(w)), 0, 0, "nil", be.trace)

ReadRegU32BE(o, reg, wout, rout) ==
    LET w == WriteBytes(o, RegSelect(reg), wout)
        r == ReadBytes(o, 4, rout)
        buf == Fill(4, r.data)
    IN  IF w.err # "nil" THEN Ret(U32(0, 0), 0, 0, w.err, <<w>>)
        ELSE IF r.err # "nil" THEN Ret(U32(0, 0), 0, 0, r.err, <<w, r>>)
        ELSE Ret(Or32(Or32(Shl32(buf[1], 24), Shl32(buf[2], 16)),
                      Or32(Shl32(buf[3], 8), Shl32(buf[4], 0))),
                 0, 0, "nil", <<w, r>>)

\* ------------------------------------------------------------ register writes
WriteRegBytes(o, reg, buf, wout) ==
    LET w == WriteBytes(o, <<reg>> \o buf, wout)
    IN  Ret(0, w.n, 0, w.err, <<w>>)

WriteRegU8(o, reg, value, wout) ==
    LET w == WriteBytes(o, <<reg, value>>, wout)
    IN  Ret(0, 0, 0, w.err, <<w>>)

WriteRegU16BE(o, reg, value, wout) ==
    LET w == WriteBytes(o, <<reg, U8(Shr8(AndFF00(value))), U8(And00FF(value))>>, wout)
    IN  Ret(0, 0, 0, w.err, <<w>>)

\* w := (value*0xFF00)>>8 + value<<8
WriteRegU16LE(o, reg, value, wout) ==
    LET w == U16(Shr8(Mul16(value, 65280)) + U16(value * 256))
    IN  WriteRegU16BE(o, reg, w, wout)

WriteRegS16BE(o, reg, value, wout) ==
    LET w == WriteBytes(o, <<reg, U8(Shr8(AndFF00(U16(value)))), U8(And00FF(value))>>, wout)
    IN  Ret(0, 0, 0, w.err, <<w>>)

\* w := int16((uint16(value)*0xFF00)>>8) + value<<8
WriteRegS16LE(o, reg, value, wout) ==
    LET w == S16(S16(Shr8(Mul16(U16(value), 65280))) + S16(value * 256))
    IN  WriteRegS16BE(o, reg, w, wout)

WriteRegU24BE(o, reg, value, wout) ==
    LET w == WriteBytes(o, <<reg, Shr32Byte(value, 16), Shr32Byte(value, 8),
                             Shr32Byte(value, 0)>>, wout)
    IN  Ret(0, 0, 0, w.err, <<w>>)

\* WriteRegU32BE with the payload least significant byte first
WriteRegU32BESwapped(o, reg, value, wout) ==
    LET w == WriteBytes(o, <<reg, Shr32Byte(value, 0), Shr32Byte(value, 8),
                             Shr32Byte(value, 16), Shr32Byte(value, 24)>>, wout)
    IN  Ret(0, 0, 0, w.err, <<w>>)

WriteRegU32BE(o, reg, value, wout) ==
    LET w == WriteBytes(o, <<reg, Shr32Byte(value, 24), Shr32Byte(value, 16),
                             Shr32Byte(value, 8), Shr32Byte(value, 0)>>, wout)
    IN  Ret(0, 0, 0, w.err, <<w>>)

\* ------------------------------------------------------------ combined transfer
\* One message descriptor of I2C_RDWR; buf names the slice whose first
\* element's address it carries.
Msg(addr, flags, len, buf) == [addr |-> addr, flags |-> flags, len |-> len, buf |-> buf]

\* WriteThenReadBytes: &writeBuf[0] and &readBuf[0] are evaluated first, and
\* indexing an empty slice panics; len is narrowed to uint16.
WriteThenReadBytes(o, writeBuf, readLen, out) ==
    LET msgs == <<Msg(o.addr, 0, U16(Len(writeBuf)), "writeBuf"),
                  Msg(o.addr, I2C_M_RD, U16(readLen), "readBuf")>>
        io == ioctl(Fd(o.rc), I2C_RDWR, 0, writeBuf, msgs, out)
    IN  IF Len(writeBuf) = 0 \/ readLen = 0 THEN Ret(0, 0, 0, "panic", <<>>)
        ELSE IF io.err # "nil" THEN Ret(0, 0, 0, io.err, <<io>>)
        ELSE Ret(0, Len(writeBuf), readLen, "nil", <<io>>)

\* ------------------------------------------------------------ kernel and device
\* The descriptor table after the calls of a trace: a successful open adds
\* its descriptor, a close that reaches the kernel releases its own.
RECURSIVE KernelAfter(_, _)
KernelAfter(fds, trace) ==
    IF trace = <<>> THEN fds
    ELSE LET c == Head(trace)
             next == CASE c.kind = "open" /\ c.err = "nil" -> fds \cup {c.fd}
                       [] c.kind = "close" /\ c.sys -> fds \ {c.fd}
                       [] OTHER -> fds
         IN  KernelAfter(next, Tail(trace))

\* The device's register pointer after the calls of a trace: the first byte
\* of a write that reached the device selects the register.
RECURSIVE DeviceAfter(_, _)
DeviceAfter(ptr, trace) ==
    IF trace = <<>> THEN ptr
    ELSE LET c == Head(trace)
             wrote == \/ c.kind = "write"
                      \/ c.kind = "ioctl" /\ c.cmd = I2C_RDWR
             next == IF wrote /\ c.sys /\ c.err = "nil" /\ Len(c.buf) > 0
                     THEN c.buf[1] ELSE ptr
         IN  DeviceAfter(next, Tail(trace))

\* ------------------------------------------------------------ state
VARIABLES
    o,        \* the handle: the Options struct New returned (NoHandle before)
    closed,   \* whether Close has returned nil on this handle
    fds,      \* the descriptors open in the process
    devptr,   \* the register the device will serve on the next read
    pc,       \* the single caller: "idle" or "returned" (holding a result)
    call,     \* the call the caller last made and what it returned
    cpc,      \* per concurrent context: where it is inside ReadRegU8
    creg,     \* per concurrent context: the register it asked for
    cret,     \* per concurrent context: what ReadRegU8 returned to it
    mutex,    \* the caller-supplied lock: its holder, 0 when free
    useLock   \* whether the callers wrap each operation in the lock

vars == <<o, closed, fds, devptr, pc, call, cpc, creg, cret, mutex, useLock>>
seqVars == <<o, closed, fds, pc, call>>
concVars == <<cpc, creg, cret, mutex, useLock>>

\* ------------------------------------------------------------ inputs
Args(reg, val, buf, n) == [reg |-> reg, val |-> val, buf |-> buf, n |-> n]

Vals16 == {h * 256 + l : h \in ByteSamples, l \in ByteSamples}
ValsS16 == {S16(v) : v \in Vals16}
Vals32 == {U32(h, l) : h \in Vals16, l \in Vals16}

\* what write(2) can report
WriteOuts(h) == IF h.rc.st = "open" THEN {"nil", "EIO"} ELSE {"nil"}

\* what read(2) can do with a buffer of n bytes: fail, deliver nothing, or
\* deliver 1..n bytes
ReadOutsOver(B, h, n) ==
    IF h.rc.st # "open" \/ n <= 0 THEN {[err |-> "nil", data |-> <<>>]}
    ELSE {[err |-> "EIO", data |-> <<>>], [err |-> "EOF", data |-> <<>>]}
         \cup {[err |-> "nil", data |-> d] : d \in SeqsUpTo(B, n) \ {<<>>}}

ReadOuts(h, n) == ReadOutsOver(ByteSamples, h, n)

\* the read is reached only when the register write succeeded
ReadOutsAfterOver(B, h, n, wout) ==
    IF wout = "nil" THEN ReadOutsOver(B, h, n) ELSE {[err |-> "nil", data |-> <<>>]}

ReadOutsAfter(h, n, wout) == ReadOutsAfterOver(ByteSamples, h, n, wout)

\* what ioctl(2) can report on a valid descriptor
IoctlOuts(h) == IF h.rc.st = "open" THEN {"nil", "EIO"} ELSE {"nil"}

NoCall == [op |-> "none", args |-> Args(0, 0, <<>>, 0),
           pre |-> [o |-> NoHandle, closed |-> FALSE, fds |-> {}],
           res |-> Ret(0, 0, 0, "nil", <<>>)]

NoRet == [val |-> 0, err |-> "nil", served |-> -1]

\* ------------------------------------------------------------ initial states
Init ==
    /\ o = NoHandle
    /\ closed = FALSE
    /\ fds = {}
    /\ devptr = 0
    /\ pc = "idle"
    /\ call = NoCall
    /\ cpc = [c \in Ctx |-> "idle"]
    /\ creg = [c \in Ctx |-> 0]
    /\ cret = [c \in Ctx |-> NoRet]
    /\ mutex = 0
    /\ useLock = FALSE

\* ------------------------------------------------------------ the single caller
\* The caller makes one call op(args) that returns res and leaves the handle
\* as h; the kernel and the device move as the calls of res.trace make them.
Invoke(op, args, res, h, cl) ==
    /\ pc' = "returned"
    /\ call' = [op |-> op, args |-> args,
                pre |-> [o |-> o, closed |-> closed, fds |-> fds], res |-> res]
    /\ o' = h
    /\ closed' = cl
    /\ fds' = KernelAfter(fds, res.trace)
    /\ devptr' = DeviceAfter(devptr, res.trace)
    /\ UNCHANGED concVars

CallNew ==
    /\ pc = "idle"
    /\ o.rc.st # "open"
    /\ Cardinality(fds) < MaxFds
    /\ \E addr \in Addrs, dev \in Devs, oout \in {"nil", "ENOENT"} :
         \E iout \in (IF oout = "nil" THEN {"nil", "EBUSY"} ELSE {"nil"}) :
           LET res == New(addr, dev, fds, oout, iout)
           IN  Invoke("New", Args(addr, 0, <<>>, 0), res, res.ret, FALSE)

CallClose ==
    /\ pc = "idle"
    /\ o.live
    /\ \E out \in (IF o.rc.st = "open" THEN {"nil", "EIO"} ELSE {"nil"}) :
         LET res == Close(o, out)
         IN  Invoke("Close", Args(0, 0, <<>>, 0), res,
                    IF o.rc.st = "open" THEN [o EXCEPT !.rc = ClosedFile] ELSE o,
                    closed \/ res.err = "nil")

CallReadBytes ==
    /\ pc = "idle"
    /\ o.live
    /\ \E n \in 0..MaxLen : \E rout \in ReadOuts(o, n) :
         LET r == ReadBytes(o, n, rout)
         IN  Invoke("ReadBytes", Args(0, 0, <<>>, n),
                    Ret(Fill(n, r.data), r.n, 0, r.err, <<r>>), o, closed)

CallWriteBytes ==
    /\ pc = "idle"
    /\ o.live
    /\ \E buf \in SeqsUpTo(ByteSamples, MaxLen), wout \in WriteOuts(o) :
         LET w == WriteBytes(o, buf, wout)
         IN  Invoke("WriteBytes", Args(0, 0, buf, 0),
                    Ret(0, w.n, 0, w.err, <<w>>), o, closed)

CallReadRegBytes ==
    /\ pc = "idle"
    /\ o.live
    /\ \E reg \in Regs, n \in (-1)..MaxLen, wout \in WriteOuts(o) :
         \E rout \in ReadOutsAfter(o, n, wout) :
           Invoke("ReadRegBytes", Args(reg, 0, <<>>, n),
                  ReadRegBytes(o, reg, n, wout, rout), o, closed)

CallReadRegU8 ==
    /\ pc = "idle"
    /\ o.live
    /\ \E reg \in Regs, wout \in WriteOuts(o) :
         \E rout \in ReadOutsAfter(o, 1, wout) :
           Invoke("ReadRegU8", Args(reg, 0, <<>>, 1),
                  ReadRegU8(o, reg, wout, rout), o, closed)

\* a call of ReadRegU16BE on a register of R whose device answers with
\* bytes of B
ReadRegU16BEFrom(R, B) ==
    /\ pc = "idle"
    /\ o.live
    /\ \E reg \in R, wout \in WriteOuts(o) :
         \E rout \in ReadOutsAfterOver(B, o, 2, wout) :
           Invoke("ReadRegU16BE", Args(reg, 0, <<>>, 2),
                  ReadRegU16BE(o, reg, wout, rout), o, closed)

CallReadRegU16BE == ReadRegU16BEFrom(Regs, ByteSamples)

CallReadRegU16LE ==
    /\ pc = "idle"
    /\ o.live
    /\ \E reg \in Regs, wout \in WriteOuts(o) :
         \E rout \in ReadOutsAfter(o, 2, wout) :
           Invoke("ReadRegU16LE", Args(reg, 0, <<>>, 2),
                  ReadRegU16LE(o, reg, wout, rout), o, closed)

\* a call of ReadRegS16BE on a register of R whose device answers with
\* bytes of B
ReadRegS16BEFrom(R, B) ==
    /\ pc = "idle"
    /\ o.live
    /\ \E reg \in R, wout \in WriteOuts(o) :
         \E rout \in ReadOutsAfterOver(B, o, 2, wout) :
           Invoke("ReadRegS16BE", Args(reg, 0, <<>>, 2),
                  ReadRegS16BE(o, reg, wout, rout), o, closed)

CallReadRegS16BE == ReadRegS16BEFrom(Regs, ByteSamples)

CallReadRegS16LE ==
    /\ pc = "idle"
    /\ o.live
    /\ \E reg \in Regs, wout \in WriteOuts(o) :
         \E rout \in ReadOutsAfter(o, 2, wout) :
           Invoke("ReadRegS16LE", Args(reg, 0, <<>>, 2),
                  ReadRegS16LE(o, reg, wout, rout), o, closed)

CallReadRegU32BE ==
    /\ pc = "idle"
    /\ o.live
    /\ \E reg \in Regs, wout \in WriteOuts(o) :
         \E rout \in ReadOutsAfter(o, 4, wout) :
           Invoke("ReadRegU32BE", Args(reg, 0, <<>>, 4),
                  ReadRegU32BE(o, reg, wout, rout), o, closed)

CallWriteRegBytes ==
    /\ pc = "idle"
    /\ o.live
    /\ \E reg \in Regs, buf \in SeqsUpTo(ByteSamples, MaxLen), wout \in WriteOuts(o) :
         Invoke("WriteRegBytes", Args(reg, 0, buf, 0),
                WriteRegBytes(o, reg, buf, wout), o, closed)

CallWriteRegU8 ==
    /\ pc = "idle"
    /\ o.live
    /\ \E reg \in Regs, v \in ByteSamples, wout \in WriteOuts(o) :
         Invoke("WriteRegU8", Args(reg, v, <<>>, 0),
                WriteRegU8(o, reg, v, wout), o, closed)

CallWriteRegU16BE ==
    /\ pc = "idle"
    /\ o.live
    /\ \E reg \in Regs, v \in Vals16, wout \in WriteOuts(o) :
         Invoke("WriteRegU16BE", Args(reg, v, <<>>, 0),
                WriteRegU16BE(o, reg, v, wout), o, closed)

CallWriteRegU16LE ==
    /\ pc = "idle"
    /\ o.live
    /\ \E reg \in Regs, v \in Vals16, wout \in WriteOuts(o) :
         Invoke("WriteRegU16LE", Args(reg, v, <<>>, 0),
                WriteRegU16LE(o, reg, v, wout), o, closed)

CallWriteRegS16BE ==
    /\ pc = "idle"
    /\ o.live
    /\ \E reg \in Regs, v \in ValsS16, wout \in WriteOuts(o) :
         Invoke("WriteRegS16BE", Args(reg, v, <<>>, 0),
                WriteRegS16BE(o, reg, v, wout), o, closed)

CallWriteRegS16LE ==
    /\ pc = "idle"
    /\ o.live
    /\ \E reg \in Regs, v \in ValsS16, wout \in WriteOuts(o) :
         Invoke("WriteRegS16LE", Args(reg, v, <<>>, 0),
                WriteRegS16LE(o, reg, v, wout), o, closed)

CallWriteRegU24BE ==
    /\ pc = "idle"
    /\ o.live
    /\ \E reg \in Regs, v \in Vals32, wout \in WriteOuts(o) :
         Invoke("WriteRegU24BE", Args(reg, v, <<>>, 0),
                WriteRegU24BE(o, reg, v, wout), o, closed)

CallWriteRegU32BE ==
    /\ pc = "idle"
    /\ o.live
    /\ \E reg \in Regs, v \in Vals32, wout \in WriteOuts(o) :
         Invoke("WriteRegU32BE", Args(reg, v, <<>>, 0),
                WriteRegU32BE(o, reg, v, wout), o, closed)

CallWriteThenReadBytes ==
    /\ pc = "idle"
    /\ o.live
    /\ \E buf \in SeqsUpTo(ByteSamples, MaxLen), n \in 0..MaxLen, out \in IoctlOuts(o) :
         Invoke("WriteThenReadBytes", Args(0, 0, buf, n),
                WriteThenReadBytes(o, buf, n, out), o, closed)

\* the caller takes the result and is ready for its next call
Return ==
    /\ pc = "returned"
    /\ pc' = "idle"
    /\ call' = NoCall
    /\ UNCHANGED <<o, closed, fds, devptr>>
    /\ UNCHANGED concVars

Next ==
    \/ CallNew
    \/ CallClose
    \/ CallReadBytes
    \/ CallWriteBytes
    \/ CallReadRegBytes
    \/ CallReadRegU8
    \/ CallReadRegU16BE
    \/ CallReadRegU16LE
    \/ CallReadRegS16BE
    \/ CallReadRegS16LE
    \/ CallReadRegU32BE
    \/ CallWriteRegBytes
    \/ CallWriteRegU8
    \/ CallWriteRegU16BE
    \/ CallWriteRegU16LE
    \/ CallWriteRegS16BE
    \/ CallWriteRegS16LE
    \/ CallWriteRegU24BE
    \/ CallWriteRegU32BE
    \/ CallWriteThenReadBytes
    \/ Return

Spec == Init /\ [][Next]_vars

\* ------------------------------------------------------------ every 16-bit word
\* The big-endian 16-bit reads on an open handle, with the device free to
\* answer any bytes at all.
InitOpen ==
    /\ o = Options(39, "/dev/i2c-0", OpenFile(3))
    /\ closed = FALSE
    /\ fds = {3}
    /\ devptr = 0
    /\ pc = "idle"
    /\ call = NoCall
    /\ cpc = [c \in Ctx |-> "idle"]
    /\ creg = [c \in Ctx |-> 0]
    /\ cret = [c \in Ctx |-> NoRet]
    /\ mutex = 0
    /\ useLock = FALSE

AnyReadRegU16BE == ReadRegU16BEFrom({0}, Byte)

AnyReadRegS16BE == ReadRegS16BEFrom({0}, Byte)

NextWord ==
    \/ AnyReadRegU16BE
    \/ AnyReadRegS16BE
    \/ Return

SpecWord == InitOpen /\ [][NextWord]_vars

\* ------------------------------------------------------------ concurrent callers
\* Several execution contexts call ReadRegU8 on one open handle.  The handle
\* holds no lock, so the two calls ReadRegU8 makes (the write of the register
\* byte, then the read) are separate steps that other contexts' steps may
\* come between.  When useLock holds, every caller wraps its call in a mutex
\* of its own making.
InitConc ==
    /\ o = Options(39, "/dev/i2c-0", OpenFile(3))
    /\ closed = FALSE
    /\ fds = {3}
    /\ devptr = 0
    /\ pc = "idle"
    /\ call = NoCall
    /\ cpc = [c \in Ctx |-> "idle"]
    /\ creg = [c \in Ctx |-> 0]
    /\ cret = [c \in Ctx |-> NoRet]
    /\ mutex = 0
    /\ useLock \in BOOLEAN

\* context c calls ReadRegU8(reg)
CtxCall(c) ==
    /\ cpc[c] = "idle"
    /\ \E reg \in Regs : creg' = [creg EXCEPT ![c] = reg]
    /\ cpc' = [cpc EXCEPT ![c] = IF useLock THEN "lock" ELSE "write"]
    /\ UNCHANGED <<cret, mutex, useLock, devptr>>
    /\ UNCHANGED seqVars

\* the caller's own mutual exclusion, taken before the call
CtxLock(c) ==
    /\ cpc[c] = "lock"
    /\ mutex = 0
    /\ mutex' = c
    /\ cpc' = [cpc EXCEPT ![c] = "write"]
    /\ UNCHANGED <<creg, cret, useLock, devptr>>
    /\ UNCHANGED seqVars

\* ReadRegU8, first step: o.WriteBytes([]byte{reg})
CtxWrite(c) ==
    /\ cpc[c] = "write"
    /\ \E wout \in WriteOuts(o) :
         LET w == WriteBytes(o, RegSelect(creg[c]), wout)
         IN  /\ devptr' = DeviceAfter(devptr, <<w>>)
             /\ IF w.err # "nil"
                THEN /\ cret' = [cret EXCEPT ![c] = [val |-> 0, err |-> w.err, served |-> -1]]
                     /\ cpc' = [cpc EXCEPT ![c] = "ret"]
                ELSE /\ cret' = cret
                     /\ cpc' = [cpc EXCEPT ![c] = "read"]
    /\ UNCHANGED <<creg, mutex, useLock>>
    /\ UNCHANGED seqVars

\* ReadRegU8, second step: o.ReadBytes(buf) and return buf[0]; the device
\* serves the register its pointer selects at that moment
CtxRead(c) ==
    /\ cpc[c] = "read"
    /\ \E rout \in ReadOuts(o, 1) :
         LET r == ReadBytes(o, 1, rout)
             buf == Fill(1, r.data)
         IN  cret' = [cret EXCEPT ![c] =
                        IF r.err # "nil"
                        THEN [val |-> 0, err |-> r.err, served |-> -1]
                        ELSE [val |-> buf[1], err |-> "nil", served |-> devptr]]
    /\ cpc' = [cpc EXCEPT ![c] = "ret"]
    /\ UNCHANGED <<creg, mutex, useLock, devptr>>
    /\ UNCHANGED seqVars

\* the call has returned: the caller releases its lock and takes the result
CtxReturn(c) ==
    /\ cpc[c] = "ret"
    /\ mutex' = IF mutex = c THEN 0 ELSE mutex
    /\ cpc' = [cpc EXCEPT ![c] = "idle"]
    /\ cret' = [cret EXCEPT ![c] = NoRet]
    /\ UNCHANGED <<creg, useLock, devptr>>
    /\ UNCHANGED seqVars

NextConc ==
    \E c \in Ctx :
        \/ CtxCall(c)
        \/ CtxLock(c)
        \/ CtxWrite(c)
        \/ CtxRead(c)
        \/ CtxReturn(c)

SpecConc == InitConc /\ [][NextConc]_vars

\* ------------------------------------------------------------ reading a call
\* the caller holds the result of a call of op
Returned(op) == pc = "returned" /\ call.op = op

ReturnedOneOf(ops) == pc = "returned" /\ call.op \in ops

\* the calls of the last operation that reached the operating system
SysCalls == {i \in 1..Len(call.res.trace) : call.res.trace[i].sys}

RegReads == {"ReadRegBytes", "ReadRegU8", "ReadRegU16BE", "ReadRegU16LE",
             "ReadRegS16BE", "ReadRegS16LE", "ReadRegU32BE"}

TypedReads == RegReads \ {"ReadRegBytes"}

RegWrites == {"WriteRegBytes", "WriteRegU8", "WriteRegU16BE", "WriteRegU16LE",
              "WriteRegS16BE", "WriteRegS16LE", "WriteRegU24BE", "WriteRegU32BE"}

HandleOps == RegReads \cup RegWrites
             \cup {"ReadBytes", "WriteBytes", "WriteThenReadBytes", "Close"}

\* the number of bytes a register read asks the device for
WidthOf(op) ==
    CASE op = "ReadRegU8" -> 1
      [] op \in {"ReadRegU16BE", "ReadRegU16LE", "ReadRegS16BE", "ReadRegS16LE"} -> 2
      [] op = "ReadRegU32BE" -> 4
      [] OTHER -> call.args.n

\* the 16-bit pattern of a signed or unsigned 16-bit value
Bits16(v) == IF v < 0 THEN v + 65536 ELSE v

\* ------------------------------------------------------------ claims

\* C1: WriteRegU16LE(r, v) and WriteRegS16LE(r, v) each hand the bus exactly
\* the 3-byte buffer [r, low byte of v, high byte of v], taken from the
\* two's-complement bit pattern of v.
C1_WriteLEStated ==
    ReturnedOneOf({"WriteRegU16LE", "WriteRegS16LE"}) =>
        /\ Len(call.res.trace) = 1
        /\ call.res.trace[1].kind = "write"
        /\ call.res.trace[1].buf =
             <<call.args.reg, Bits16(call.args.val) % 256,
               Bits16(call.args.val) \div 256>>

\* C2: for a full 2-byte response [b0, b1], ReadRegU16LE returns b1<<8 | b0
\* and ReadRegS16LE returns the signed 16-bit value with that bit pattern,
\* also when b0 >= 0x80.
C2_ReadLEStated ==
    (/\ ReturnedOneOf({"ReadRegU16LE", "ReadRegS16LE"})
     /\ call.res.err = "nil"
     /\ Len(call.res.trace[2].data) = 2) =>
        LET b0 == call.res.trace[2].data[1]
            b1 == call.res.trace[2].data[2]
        IN  Bits16(call.res.ret) = b1 * 256 + b0

\* C3: after Close has succeeded on a handle, every later operation on it
\* fails with the closed-handle error and makes no system call.
C3_ClosedStated ==
    (/\ ReturnedOneOf(HandleOps)
     /\ call.pre.closed) =>
        /\ call.res.err = "ErrClosed"
        /\ SysCalls = {}

\* C4: every WriteThenReadBytes(writeBuf, readBuf) on an open handle makes
\* exactly one I2C_RDWR ioctl and no write or read; the ioctl carries two
\* descriptors, both to the handle's address, the first a write of writeBuf
\* and the second a read into readBuf; on success the counts are the two
\* lengths, on failure the ioctl's error with counts (0, 0).
C4_CombinedStated ==
    (/\ Returned("WriteThenReadBytes")
     /\ call.pre.o.rc.st = "open") =>
        /\ Len(call.res.trace) = 1
        /\ LET io == call.res.trace[1]
           IN  /\ io.kind = "ioctl" /\ io.sys /\ io.cmd = I2C_RDWR
               /\ io.fd = call.pre.o.rc.fd
               /\ io.buf = call.args.buf
               /\ io.msgs = <<[addr |-> call.pre.o.addr, flags |-> 0,
                               len |-> Len(call.args.buf), buf |-> "writeBuf"],
                              [addr |-> call.pre.o.addr, flags |-> I2C_M_RD,
                               len |-> call.args.n, buf |-> "readBuf"]>>
               /\ call.res.err = io.err
               /\ io.err = "nil" => call.res.n = Len(call.args.buf) /\ call.res.m = call.args.n
               /\ io.err # "nil" => call.res.n = 0 /\ call.res.m = 0

\* C5: every register read makes, in this order, exactly one write of the
\* single byte [reg] and then at most one read of N bytes; when the write
\* fails no read is made; the error of the first failing step is the one
\* returned, and no step is made twice.
C5_ReadOrder ==
    ReturnedOneOf(RegReads) =>
        LET t == call.res.trace
        IN  /\ Len(t) \in {1, 2}
            /\ t[1].kind = "write"
            /\ t[1].buf = <<call.args.reg>>
            /\ t[1].err # "nil" => Len(t) = 1 /\ call.res.err = t[1].err
            /\ Len(t) = 2 =>
                 /\ t[2].kind = "read"
                 /\ t[2].len = WidthOf(call.op)
                 /\ call.res.err = t[2].err

\* a register read whose write succeeded and whose read failed: the read's
\* error came back
C5_Witness ==
    /\ Returned("ReadRegU32BE")
    /\ Len(call.res.trace) = 2
    /\ call.res.trace[1].err = "nil"
    /\ call.res.trace[2].sys
    /\ call.res.trace[2].err = "EIO"
    /\ call.res.err = "EIO"

\* C6: every register write makes exactly one raw write and no other call;
\* the raw and big-endian variants write [reg] followed by the payload, most
\* significant byte first.
C6_OneWrite ==
    ReturnedOneOf(RegWrites) =>
        LET t == call.res.trace
            reg == call.args.reg
            v == call.args.val
        IN  /\ Len(t) = 1
            /\ t[1].kind = "write"
            /\ call.res.err = t[1].err
            /\ call.op = "WriteRegBytes" => t[1].buf = <<reg>> \o call.args.buf
            /\ call.op = "WriteRegU8" => t[1].buf = <<reg, v>>
            /\ call.op \in {"WriteRegU16BE", "WriteRegS16BE"} =>
                 t[1].buf = <<reg, Bits16(v) \div 256, Bits16(v) % 256>>
            /\ call.op = "WriteRegU24BE" =>
                 t[1].buf = <<reg, v.hi % 256, v.lo \div 256, v.lo % 256>>
            /\ call.op = "WriteRegU32BE" =>
                 t[1].buf = <<reg, v.hi \div 256, v.hi % 256, v.lo \div 256, v.lo % 256>>

\* WriteRegU32BE of 0x123480FF reached the device as [reg, 0x12, 0x34, 0x80, 0xFF]
C6_Witness ==
    /\ Returned("WriteRegU32BE")
    /\ call.args.val = [hi |-> 4660, lo |-> 33023]
    /\ call.res.err = "nil"
    /\ call.res.trace[1].sys
    /\ call.res.trace[1].buf = <<call.args.reg, 18, 52, 128, 255>>

\* C7: for a full 2-byte response [b0, b1], ReadRegS16BE returns the signed
\* 16-bit value whose bit pattern is b0<<8 | b1, the pattern ReadRegU16BE
\* returns for those bytes: [0xFF, 0xFF] gives -1 and [0x80, 0x00] gives
\* -32768.
C7_ReadS16BE ==
    (/\ Returned("ReadRegS16BE")
     /\ call.res.err = "nil"
     /\ Len(call.res.trace[2].data) = 2) =>
        LET b0 == call.res.trace[2].data[1]
            b1 == call.res.trace[2].data[2]
        IN  /\ call.res.ret \in (-32768)..32767
            /\ (call.res.ret - (b0 * 256 + b1)) % 65536 = 0
            /\ Bits16(call.res.ret) =
                 ReadRegU16BE(call.pre.o, call.args.reg, "nil",
                              [err |-> "nil", data |-> <<b0, b1>>]).ret
            /\ (b0 = 255 /\ b1 = 255) => call.res.ret = -1
            /\ (b0 = 128 /\ b1 = 0) => call.res.ret = -32768

\* the device answered [0x80, 0x00] and ReadRegS16BE returned -32768
C7_Witness ==
    /\ Returned("ReadRegS16BE")
    /\ call.res.err = "nil"
    /\ call.res.trace[2].data = <<128, 0>>
    /\ call.res.ret = -32768

\* C8: a typed register read that returns success has decoded N bytes the
\* device delivered, never buffer positions the read left unfilled.
C8_FullReadStated ==
    (/\ ReturnedOneOf(TypedReads)
     /\ call.res.err = "nil") =>
        /\ Len(call.res.trace) = 2
        /\ call.res.trace[2].n = WidthOf(call.op)

\* ReadRegU8 returned to context c the bytes of a register other than the
\* one c asked for
Crossed(c) ==
    /\ cpc[c] = "ret"
    /\ cret[c].err = "nil"
    /\ cret[c].served # creg[c]

\* C9: a register read returns the bytes of a register it did not select
\* only when the callers run without mutual exclusion; that state is
\* reachable without the lock and unreachable with it.
C9_LockedNeverCrossed == \A c \in Ctx : Crossed(c) => ~useLock

\* without the lock, context c wrote its register byte, context d wrote
\* another, and c's read was served from d's register
C9_Witness ==
    \E c \in Ctx, d \in Ctx :
        /\ c # d
        /\ ~useLock
        /\ Crossed(c)
        /\ cret[c].served = creg[d]
        /\ cpc[d] \in {"read", "ret"}

\* C10: when New returns, every descriptor it opened is either owned by the
\* returned handle or already released.
C10_NoLeakStated ==
    Returned("New") =>
        \A f \in fds \ call.pre.fds : o.rc.st = "open" /\ o.rc.fd = f

====
